---- MODULE Spec2Model ----
(***************************************************************************)
(* naivedb storage layer: JSONStorage (one JSON file behind an open file   *)
(* handle), MemoryStorage (a dict held by reference) and ItemStorage (a    *)
(* caching wrapper over either).  Python dicts are objects on a heap, so   *)
(* two storages may hold the same dict; the file is a sequence of          *)
(* one-character strings.                                                  *)
(***************************************************************************)
EXTENDS Integers, Sequences, FiniteSets, TLC

\* ------------------------------------------------------------------ bounds
\* Item field values range over 1..MaxVal.
MaxVal == 1
\* A file opened for appending grows with every write; its writes are
\* explored while the file stays within MaxFileLen characters.
MaxFileLen == 20

\* --------------------------------------------------------- data universe
Keys == {"a", "b"}
Fields == {"x"}

\* A Python dict is a sequence of <<key, value>> pairs with distinct keys, in
\* insertion order.  An item is a dict field -> integer (depth 1); a snapshot
\* is a dict key -> item (depth 2).
DictKeys(d) == {d[i][1] : i \in DOMAIN d}

HasKey(d, k) == k \in DictKeys(d)

KeyIndex(d, k) == CHOOSE i \in DOMAIN d : d[i][1] = k

DictGet(d, k) == d[KeyIndex(d, k)][2]

\* d[k] = v : an existing key keeps its position, a new key goes last.
DictSet(d, k, v) ==
    IF HasKey(d, k)
    THEN [i \in DOMAIN d |-> IF d[i][1] = k THEN <<k, v>> ELSE d[i]]
    ELSE Append(d, <<k, v>>)

\* d.pop(k, None)
DictPop(d, k) ==
    IF HasKey(d, k)
    THEN LET n == KeyIndex(d, k)
         IN  SubSeq(d, 1, n - 1) \o SubSeq(d, n + 1, Len(d))
    ELSE d

\* Python's == on dicts ignores insertion order.
ItemEq(x, y) ==
    /\ DictKeys(x) = DictKeys(y)
    /\ \A k \in DictKeys(x) : DictGet(x, k) = DictGet(y, k)

DictEq(x, y) ==
    /\ DictKeys(x) = DictKeys(y)
    /\ \A k \in DictKeys(x) : ItemEq(DictGet(x, k), DictGet(y, k))

Items == {<<>>} \cup {<< <<f, n>> >> : f \in Fields, n \in 1..MaxVal}

Snapshots ==
    {<<>>}
    \cup {<< <<k, v>> >> : k \in Keys, v \in Items}
    \cup {d \in {<< <<k1, v1>>, <<k2, v2>> >> :
                    k1 \in Keys, k2 \in Keys, v1 \in Items, v2 \in Items} :
            d[1][1] # d[2][1]}

\* Optional values: None, or Some(v).
None == [some |-> FALSE, v |-> <<>>]
Some(x) == [some |-> TRUE, v |-> x]

\* ------------------------------------------------------------ json.dumps
DigitChars == <<"0", "1", "2", "3", "4", "5", "6", "7", "8", "9">>

RECURSIVE DumpsInt(_)
DumpsInt(n) ==
    IF n < 10 THEN <<DigitChars[n + 1]>>
    ELSE DumpsInt(n \div 10) \o <<DigitChars[(n % 10) + 1]>>

\* '"k": ' followed by the value, members joined by ', ', inside braces.
RECURSIVE DumpsMembers(_, _)
DumpsMembers(d, depth) ==
    IF d = <<>> THEN <<>>
    ELSE LET m == d[1]
             val == IF depth = 1 THEN DumpsInt(m[2])
                    ELSE <<"{">> \o DumpsMembers(m[2], depth - 1) \o <<"}">>
             sep == IF Len(d) > 1 THEN <<",", " ">> ELSE <<>>
         IN  <<"\"", m[1], "\"", ":", " ">> \o val \o sep
                \o DumpsMembers(Tail(d), depth)

dumps(data) == <<"{">> \o DumpsMembers(data, 2) \o <<"}">>

\* ------------------------------------------------------------- json.load
\* Parse results: [ok, val, pos] with pos the index after the parsed text.
Fail == [ok |-> FALSE, val |-> <<>>, pos |-> 0]

At(s, i) == IF i \in DOMAIN s THEN s[i] ELSE "EOF"

RECURSIVE SkipWs(_, _)
SkipWs(s, i) == IF At(s, i) = " " THEN SkipWs(s, i + 1) ELSE i

DigitVal(c) == (CHOOSE j \in DOMAIN DigitChars : DigitChars[j] = c) - 1

IsDigit(c) == \E j \in DOMAIN DigitChars : DigitChars[j] = c

RECURSIVE ParseDigits(_, _, _)
ParseDigits(s, i, acc) ==
    IF IsDigit(At(s, i)) THEN ParseDigits(s, i + 1, 10 * acc + DigitVal(s[i]))
    ELSE [ok |-> TRUE, val |-> acc, pos |-> i]

ParseInt(s, i) == IF IsDigit(At(s, i)) THEN ParseDigits(s, i, 0) ELSE Fail

\* A string of one character between double quotes.
ParseString(s, i) ==
    IF At(s, i) = "\"" /\ At(s, i + 1) \notin {"\"", "EOF"} /\ At(s, i + 2) = "\""
    THEN [ok |-> TRUE, val |-> s[i + 1], pos |-> i + 3]
    ELSE Fail

RECURSIVE ParseObject(_, _, _)
RECURSIVE ParseMembers(_, _, _, _)
\* After '{' (or after ','): a member, then ',' and more members, or '}'.
ParseMembers(s, i, depth, acc) ==
    LET k == ParseString(s, SkipWs(s, i)) IN
    IF ~k.ok THEN Fail ELSE
    LET c == SkipWs(s, k.pos) IN
    IF At(s, c) # ":" THEN Fail ELSE
    LET v == IF depth = 1 THEN ParseInt(s, SkipWs(s, c + 1))
             ELSE ParseObject(s, SkipWs(s, c + 1), depth - 1) IN
    IF ~v.ok THEN Fail ELSE
    LET e == SkipWs(s, v.pos)
        acc2 == DictSet(acc, k.val, v.val) IN
    IF At(s, e) = "," THEN ParseMembers(s, e + 1, depth, acc2)
    ELSE IF At(s, e) = "}" THEN [ok |-> TRUE, val |-> acc2, pos |-> e + 1]
    ELSE Fail

ParseObject(s, i, depth) ==
    IF At(s, i) # "{" THEN Fail
    ELSE IF At(s, SkipWs(s, i + 1)) = "}"
         THEN [ok |-> TRUE, val |-> <<>>, pos |-> SkipWs(s, i + 1) + 1]
         ELSE ParseMembers(s, i + 1, depth, <<>>)

\* The whole text must be one object-of-objects; anything after it is
\* "Extra data".
loads(s) ==
    LET r == ParseObject(s, SkipWs(s, 1), 2) IN
    IF r.ok /\ SkipWs(s, r.pos) = Len(s) + 1 THEN r ELSE Fail

\* ----------------------------------------------------------- Storage.close
\* Storage.close with a body that closes the file handle underneath.
Storage_close_Delegates(cl) == [exc |-> "none", closed |-> TRUE]

\* The inherited close(): pass.  cl tells whether the file handle of the
\* JSONStorage around is closed; the result tells the same afterwards.
Storage_close(cl) == [exc |-> "none", closed |-> cl]

\* ------------------------------------------------------- the file handle
\* Access modes are strings of mode characters, as passed to open().
Modes == {<<"r">>, <<"r", "+">>, <<"w">>, <<"w", "+">>, <<"a">>, <<"a", "+">>}

InMode(c, m) == \E i \in DOMAIN m : m[i] = c

\* self._can_write
can_write(m) == \E c \in {"a", "w", "+"} : InMode(c, m)

\* open(path, mode): which modes may read, which append, which truncate.
Readable(m) == InMode("r", m) \/ InMode("+", m)

Appending(m) == InMode("a", m)

open(content, m) == IF InMode("w", m) THEN <<>> ELSE content

\* file.write(text) at offset pos; an append-mode handle writes at the end of
\* the file whatever the offset, and the offset follows the data written.
FileWrite(content, pos, text, m) ==
    IF Appending(m)
    THEN [content |-> content \o text, pos |-> Len(content) + Len(text)]
    ELSE [content |-> SubSeq(content, 1, pos) \o text
                        \o SubSeq(content, pos + Len(text) + 1, Len(content)),
          pos |-> pos + Len(text)]

\* file.truncate(): cut the file at the current offset.
FileTruncate(content, pos) == SubSeq(content, 1, pos)

\* ------------------------------------------------------------ JSONStorage
\* read() without the test for an empty file.
JSONStorage_read_NoSizeCheck(f, m, cl) ==
    IF cl THEN [exc |-> "ValueError", ret |-> None]
    ELSE IF ~Readable(m) THEN [exc |-> "UnsupportedOperation", ret |-> None]
    ELSE LET r == loads(f) IN
         IF r.ok THEN [exc |-> "none", ret |-> Some(r.val)]
         ELSE [exc |-> "JSONDecodeError", ret |-> None]

\* Results of a call: exc is "none" or the exception raised.
JSONStorage_read(f, m, cl) ==
    IF cl THEN [exc |-> "ValueError", ret |-> None]
    ELSE IF Len(f) = 0 THEN [exc |-> "none", ret |-> None]
    ELSE IF ~Readable(m) THEN [exc |-> "UnsupportedOperation", ret |-> None]
    ELSE LET r == loads(f) IN
         IF r.ok THEN [exc |-> "none", ret |-> Some(r.val)]
         ELSE [exc |-> "JSONDecodeError", ret |-> None]

\* write() without the test of self._can_write.
JSONStorage_write_NoCheck(f, m, cl, data) ==
    IF cl THEN [exc |-> "ValueError", file |-> f]
    ELSE LET w == FileWrite(f, 0, dumps(data), m)
         IN  [exc |-> "none", file |-> FileTruncate(w.content, w.pos)]

JSONStorage_write(f, m, cl, data) ==
    IF ~can_write(m) THEN [exc |-> "IOError", file |-> f]
    ELSE IF cl THEN [exc |-> "ValueError", file |-> f]
    ELSE LET w == FileWrite(f, 0, dumps(data), m)
         IN  [exc |-> "none", file |-> FileTruncate(w.content, w.pos)]

\* close() that refuses a handle already closed.
JSONStorage_close_Strict(cl) ==
    [exc |-> IF cl THEN "ValueError" ELSE "none", closed |-> TRUE]

\* self._file.close(): closing a closed file object does nothing.
JSONStorage_close(cl) == [exc |-> "none", closed |-> TRUE]

\* data[key] if data else None: None and the empty dict are both falsy.
JSONStorage_getitem(f, m, cl, key) ==
    LET r == JSONStorage_read(f, m, cl) IN
    IF r.exc # "none" THEN [exc |-> r.exc, got |-> None]
    ELSE IF ~r.ret.some \/ r.ret.v = <<>> THEN [exc |-> "none", got |-> None]
    ELSE IF ~HasKey(r.ret.v, key) THEN [exc |-> "KeyError", got |-> None]
    ELSE [exc |-> "none", got |-> Some(DictGet(r.ret.v, key))]

\* __setitem__ that starts from an empty dict when read() gives None.
JSONStorage_setitem_DefaultEmpty(f, m, cl, key, value) ==
    LET r == JSONStorage_read(f, m, cl) IN
    IF r.exc # "none" THEN [exc |-> r.exc, file |-> f]
    ELSE JSONStorage_write(f, m, cl, DictSet(r.ret.v, key, value))

JSONStorage_setitem(f, m, cl, key, value) ==
    LET r == JSONStorage_read(f, m, cl) IN
    IF r.exc # "none" THEN [exc |-> r.exc, file |-> f]
    ELSE IF ~r.ret.some THEN [exc |-> "TypeError", file |-> f]
    ELSE JSONStorage_write(f, m, cl, DictSet(r.ret.v, key, value))

\* ------------------------------------------------------------------ heap
\* Dict objects live at addresses; a reference is an address or NoneRef.
NumAddr == 3
Addr == 1..NumAddr
NoneRef == 0

Deref(h, r) == IF r = NoneRef THEN None ELSE h[r]

\* The address a newly created dict gets.
Alloc(h) == CHOOSE a \in Addr : ~h[a].some /\ \A b \in 1..(a - 1) : h[b].some

\* Objects no storage refers to any more are released, and since the
\* identity of an object is only ever compared, never inspected, the objects
\* kept are renumbered: MemoryStorage's dict first, then ItemStorage's.
Collect(h, md, wd) ==
    LET md2 == IF md = NoneRef THEN NoneRef ELSE 1
        wd2 == IF wd = NoneRef THEN NoneRef
               ELSE IF wd = md THEN md2 ELSE md2 + 1
    IN  [heap |-> [a \in Addr |->
                     IF md # NoneRef /\ a = md2 THEN h[md]
                     ELSE IF wd # NoneRef /\ a = wd2 THEN h[wd]
                     ELSE None],
         m_data |-> md2,
         w_data |-> wd2]

\* ---------------------------------------------------------- MemoryStorage
MemoryStorage_read(md) == md

MemoryStorage_write(data) == data

MemoryStorage_getitem(h, md, key) ==
    IF md = NoneRef THEN [exc |-> "TypeError", got |-> None]
    ELSE IF ~HasKey(h[md].v, key) THEN [exc |-> "KeyError", got |-> None]
    ELSE [exc |-> "none", got |-> Some(DictGet(h[md].v, key))]

MemoryStorage_setitem(h, md, key, value) ==
    IF md = NoneRef THEN [exc |-> "TypeError", heap |-> h]
    ELSE [exc |-> "none",
          heap |-> [h EXCEPT ![md] = Some(DictSet(@.v, key, value))]]

\* ------------------------------------------------------------ ItemStorage
\* self._storage.write(data), data being the dict at address ref: a
\* MemoryStorage keeps the reference, a JSONStorage serializes the dict.
Storage_write(knd, f, m, cl, md, h, ref) ==
    IF knd = "memory"
    THEN [exc |-> "none", file |-> f, m_data |-> MemoryStorage_write(ref)]
    ELSE LET r == JSONStorage_write(f, m, cl, h[ref].v)
         IN  [exc |-> r.exc, file |-> r.file, m_data |-> md]

\* self._data = storage.read(): a MemoryStorage hands out its own dict, a
\* JSONStorage a newly parsed one.
ItemStorage_init(knd, f, m, cl, md, h) ==
    IF knd = "memory"
    THEN [exc |-> "none", w_data |-> MemoryStorage_read(md), heap |-> h,
          calls |-> <<"read">>]
    ELSE LET r == JSONStorage_read(f, m, cl) IN
         IF r.exc # "none"
         THEN [exc |-> r.exc, w_data |-> NoneRef, heap |-> h,
               calls |-> <<"read">>]
         ELSE IF ~r.ret.some
         THEN [exc |-> "none", w_data |-> NoneRef, heap |-> h,
               calls |-> <<"read">>]
         ELSE [exc |-> "none", w_data |-> Alloc(h),
               heap |-> [h EXCEPT ![Alloc(h)] = r.ret],
               calls |-> <<"read">>]

ItemStorage_read(h, wd) == Deref(h, wd)

\* write() that replaces the cache before the backend has accepted the data.
ItemStorage_write_CacheFirst(knd, f, m, cl, md, h, wd, data) ==
    LET a == Alloc(h)
        h1 == [h EXCEPT ![a] = Some(data)]
        w == Storage_write(knd, f, m, cl, md, h1, a)
    IN  [exc |-> w.exc, heap |-> h1, w_data |-> a,
         m_data |-> w.m_data, file |-> w.file, calls |-> <<"write">>]

\* write() that asks the backend for its content again after writing.
ItemStorage_write_Reread(knd, f, m, cl, md, h, wd, data) ==
    LET a == Alloc(h)
        h1 == [h EXCEPT ![a] = Some(data)]
        w == Storage_write(knd, f, m, cl, md, h1, a)
    IN  IF w.exc = "none"
        THEN [exc |-> "none", heap |-> h1, w_data |-> a, m_data |-> w.m_data,
              file |-> w.file, calls |-> <<"write", "read">>]
        ELSE [exc |-> w.exc, heap |-> h, w_data |-> wd,
              m_data |-> md, file |-> w.file, calls |-> <<"write">>]

\* data is the caller's dict, a new object.
ItemStorage_write(knd, f, m, cl, md, h, wd, data) ==
    LET a == Alloc(h)
        h1 == [h EXCEPT ![a] = Some(data)]
        w == Storage_write(knd, f, m, cl, md, h1, a)
    IN  IF w.exc = "none"
        THEN [exc |-> "none", heap |-> h1, w_data |-> a,
              m_data |-> w.m_data, file |-> w.file, calls |-> <<"write">>]
        ELSE [exc |-> w.exc, heap |-> h, w_data |-> wd,
              m_data |-> md, file |-> w.file, calls |-> <<"write">>]

ItemStorage_getitem(h, wd, key) ==
    LET d == Deref(h, wd) IN
    IF ~d.some \/ d.v = <<>>
    THEN [exc |-> "none", got |-> None, calls |-> <<>>]
    ELSE IF ~HasKey(d.v, key)
    THEN [exc |-> "KeyError", got |-> None, calls |-> <<>>]
    ELSE [exc |-> "none", got |-> Some(DictGet(d.v, key)), calls |-> <<>>]

\* The except branch without the pop of a key that was absent.
Restore_NoPop(d, key, had, old_value) ==
    IF ~had THEN d ELSE DictSet(d, key, old_value)

\* The except branch: pop the key if it was absent, else put the old value back.
Restore(d, key, had, old_value) ==
    IF ~had THEN DictPop(d, key) ELSE DictSet(d, key, old_value)

ItemStorage_setitem(knd, f, m, cl, md, h, wd, key, value) ==
    IF wd = NoneRef
    THEN [exc |-> "AttributeError", heap |-> h, m_data |-> md, file |-> f,
          calls |-> <<>>]
    ELSE LET had == HasKey(h[wd].v, key)
             old_value == IF had THEN DictGet(h[wd].v, key) ELSE <<>>
             h1 == [h EXCEPT ![wd] = Some(DictSet(@.v, key, value))]
             w == Storage_write(knd, f, m, cl, md, h1, wd)
         IN  IF w.exc = "none"
             THEN [exc |-> "none", heap |-> h1, m_data |-> w.m_data,
                   file |-> w.file, calls |-> <<"write">>]
             ELSE [exc |-> w.exc,
                   heap |-> [h1 EXCEPT ![wd] =
                                Some(Restore(@.v, key, had, old_value))],
                   m_data |-> md, file |-> w.file, calls |-> <<"write">>]

\* ================================================================= state
VARIABLES
    kind,      \* which leaf backend exists: "memory" or "json"
    mode,      \* JSONStorage._mode
    file,      \* content of the file behind JSONStorage._file
    closed,    \* JSONStorage._file has been closed
    heap,      \* the dict objects
    m_data,    \* MemoryStorage._data (a reference)
    w_exists,  \* an ItemStorage has been constructed over the leaf
    w_data,    \* ItemStorage._data (a reference)
    ext,       \* the leaf was written directly after the wrapper was built
    b_fresh,   \* the leaf started empty and no write() on it has succeeded
    w_fresh,   \* the wrapper started empty and no write() on it has succeeded
    last,      \* the last call and its outcome
    j_stored,  \* per key, the item last stored in the file by write or set
    pc,        \* the statement of JSONStorage.write about to run
    pos,       \* offset of the handle inside a write
    buf,       \* text handed to file.write() and not flushed yet
    disk,      \* content of the file on stable storage
    before,    \* content of the file when the write in progress began
    mode2      \* mode of a second JSONStorage opened on the same path

\* State of a write in progress, and of the second handle.
write_vars == <<pc, pos, buf, disk, before>>

vars == <<kind, mode, file, closed, heap, m_data, w_exists, w_data, ext,
          b_fresh, w_fresh, last, j_stored, write_vars, mode2>>

\* Contents a file may have before it is opened: nothing, or the dump of a
\* snapshot that holds at most the key "a".
PriorContents ==
    {<<>>} \cup {dumps(S) : S \in {T \in Snapshots : DictKeys(T) \subseteq {"a"}}}

\* The growth bound on files opened for appending.
FitsBound(f, m) == Appending(m) => Len(f) <= MaxFileLen

\* A call and its outcome: the key and item of a set, the snapshot a write
\* stored (None when it stored nothing), the exception raised or "none".
Call(op, key, item, data, exc) ==
    [op |-> op, key |-> key, item |-> item, data |-> data, exc |-> exc]

\* A call on the wrapper: calls lists the methods of the wrapped backend
\* that ran inside it, in order.
\* A call of close(): was tells whether the file handle was closed already.
CloseCall(op, exc, was) ==
    [op |-> op, key |-> "", item |-> <<>>, data |-> None, exc |-> exc,
     was |-> was]

WCall(op, key, item, data, exc, calls) ==
    [op |-> op, key |-> key, item |-> item, data |-> data, exc |-> exc,
     calls |-> calls]

\* The items a snapshot stores, key by key; None under a key it does not hold.
StoredOf(S) ==
    [k \in Keys |-> IF HasKey(S, k) THEN Some(DictGet(S, k)) ELSE None]

NothingStored == [k \in Keys |-> None]

Init ==
    /\ kind \in {"memory", "json"}
    /\ IF kind = "json"
       THEN /\ mode \in Modes
            /\ \E c \in PriorContents : file = open(c, mode)
       ELSE /\ mode = <<"r", "+">>
            /\ file = <<>>
    /\ closed = FALSE
    /\ heap = [a \in Addr |-> None]
    /\ m_data = NoneRef
    /\ w_exists = FALSE
    /\ w_data = NoneRef
    /\ ext = FALSE
    /\ b_fresh = (file = <<>>)
    /\ w_fresh = FALSE
    /\ last = Call("init", "", <<>>, None, "none")
    /\ j_stored = IF file = <<>> THEN NothingStored ELSE StoredOf(loads(file).val)
    /\ pc = "idle"
    /\ pos = 0
    /\ buf = <<>>
    /\ disk = <<>>
    /\ before = <<>>
    /\ mode2 = <<"r", "+">>

\* ---------------------------------------------------- JSONStorage actions
JRead ==
    /\ kind = "json"
    /\ \E r \in {JSONStorage_read(file, mode, closed)} :
       last' = Call("JSONStorage.read", "", <<>>, None, r.exc)
    /\ UNCHANGED <<kind, mode, file, closed, heap, m_data, w_exists, w_data,
                   ext, b_fresh, w_fresh, j_stored, write_vars, mode2>>

JWrite(data) ==
    /\ kind = "json"
    /\ \E r \in {JSONStorage_write(file, mode, closed, data)} :
       /\ FitsBound(r.file, mode)
       /\ file' = r.file
       /\ ext' = (ext \/ (w_exists /\ r.exc = "none"))
       /\ b_fresh' = (b_fresh /\ r.exc # "none")
       /\ j_stored' = IF r.exc = "none" THEN StoredOf(data) ELSE j_stored
       /\ last' = Call("JSONStorage.write", "", <<>>,
                       IF r.exc = "none" THEN Some(data) ELSE None, r.exc)
    /\ UNCHANGED <<kind, mode, closed, heap, m_data, w_exists, w_data, w_fresh, write_vars, mode2>>

JGet(key) ==
    /\ kind = "json"
    /\ \E r \in {JSONStorage_getitem(file, mode, closed, key)} :
       last' = Call("JSONStorage.__getitem__", "", <<>>, None, r.exc)
    /\ UNCHANGED <<kind, mode, file, closed, heap, m_data, w_exists, w_data,
                   ext, b_fresh, w_fresh, j_stored, write_vars, mode2>>

JSet(key, value) ==
    /\ kind = "json"
    /\ \E r \in {JSONStorage_setitem(file, mode, closed, key, value)} :
       /\ FitsBound(r.file, mode)
       /\ file' = r.file
       /\ ext' = (ext \/ (w_exists /\ r.exc = "none"))
       /\ j_stored' = IF r.exc = "none"
                       THEN [j_stored EXCEPT ![key] = Some(value)]
                       ELSE j_stored
       /\ last' = Call("JSONStorage.__setitem__", key, value, None, r.exc)
    /\ UNCHANGED <<kind, mode, closed, heap, m_data, w_exists, w_data, b_fresh,
                   w_fresh, write_vars, mode2>>

JClose ==
    /\ kind = "json"
    /\ \E r \in {JSONStorage_close(closed)} :
       /\ closed' = r.closed
       /\ last' = CloseCall("JSONStorage.close", r.exc, closed)
    /\ UNCHANGED <<kind, mode, file, heap, m_data, w_exists, w_data, ext,
                   b_fresh, w_fresh, j_stored, write_vars, mode2>>

\* -------------------------------------------------- MemoryStorage actions
MRead ==
    /\ kind = "memory"
    /\ last' = Call("MemoryStorage.read", "", <<>>, None, "none")
    /\ UNCHANGED <<kind, mode, file, closed, heap, m_data, w_exists, w_data,
                   ext, b_fresh, w_fresh, j_stored, write_vars, mode2>>

MWrite(data) ==
    /\ kind = "memory"
    /\ \E c \in {Collect([heap EXCEPT ![Alloc(heap)] = Some(data)],
                         MemoryStorage_write(Alloc(heap)), w_data)} :
       /\ heap' = c.heap
       /\ m_data' = c.m_data
       /\ w_data' = c.w_data
    /\ ext' = (ext \/ w_exists)
    /\ b_fresh' = FALSE
    /\ last' = Call("MemoryStorage.write", "", <<>>, Some(data), "none")
    /\ UNCHANGED <<kind, mode, file, closed, w_exists, w_fresh, j_stored,
                   write_vars, mode2>>

MGet(key) ==
    /\ kind = "memory"
    /\ \E r \in {MemoryStorage_getitem(heap, m_data, key)} :
       last' = Call("MemoryStorage.__getitem__", "", <<>>, None, r.exc)
    /\ UNCHANGED <<kind, mode, file, closed, heap, m_data, w_exists, w_data,
                   ext, b_fresh, w_fresh, j_stored, write_vars, mode2>>

MSet(key, value) ==
    /\ kind = "memory"
    /\ \E r \in {MemoryStorage_setitem(heap, m_data, key, value)} :
       /\ heap' = r.heap
       /\ ext' = (ext \/ (w_exists /\ r.exc = "none"))
       /\ last' = Call("MemoryStorage.__setitem__", key, value, None, r.exc)
    /\ UNCHANGED <<kind, mode, file, closed, m_data, w_exists, w_data, b_fresh,
                   w_fresh, j_stored, write_vars, mode2>>

MClose ==
    /\ kind = "memory"
    /\ \E r \in {Storage_close(closed)} :
       /\ closed' = r.closed
       /\ last' = CloseCall("MemoryStorage.close", r.exc, closed)
    /\ UNCHANGED <<kind, mode, file, heap, m_data, w_exists, w_data, ext,
                   b_fresh, w_fresh, j_stored, write_vars, mode2>>

\* ---------------------------------------------------- ItemStorage actions
WInit ==
    /\ ~w_exists
    /\ \E r \in {ItemStorage_init(kind, file, mode, closed, m_data, heap)} :
       \E c \in {Collect(r.heap, m_data, r.w_data)} :
       /\ w_exists' = (r.exc = "none")
       /\ w_data' = c.w_data
       /\ heap' = c.heap
       /\ w_fresh' = (r.exc = "none" /\ r.w_data = NoneRef)
       /\ last' = WCall("ItemStorage.__init__", "", <<>>, None, r.exc, r.calls)
    /\ UNCHANGED <<kind, mode, file, closed, m_data, ext, b_fresh, j_stored,
                   write_vars, mode2>>

WRead ==
    /\ w_exists
    /\ last' = WCall("ItemStorage.read", "", <<>>, None, "none", <<>>)
    /\ UNCHANGED <<kind, mode, file, closed, heap, m_data, w_exists, w_data,
                   ext, b_fresh, w_fresh, j_stored, write_vars, mode2>>

WWrite(data) ==
    /\ w_exists
    /\ \E r \in {ItemStorage_write(kind, file, mode, closed, m_data, heap,
                                   w_data, data)} :
       \E c \in {Collect(r.heap, r.m_data, r.w_data)} :
       /\ FitsBound(r.file, mode)
       /\ file' = r.file
       /\ m_data' = c.m_data
       /\ w_data' = c.w_data
       /\ heap' = c.heap
       /\ b_fresh' = (b_fresh /\ r.exc # "none")
       /\ w_fresh' = (w_fresh /\ r.exc # "none")
       /\ j_stored' = IF r.exc = "none" /\ kind = "json"
                       THEN StoredOf(data) ELSE j_stored
       /\ last' = WCall("ItemStorage.write", "", <<>>,
                        IF r.exc = "none" THEN Some(data) ELSE None, r.exc,
                        r.calls)
    /\ UNCHANGED <<kind, mode, closed, w_exists, ext, write_vars, mode2>>

WGet(key) ==
    /\ w_exists
    /\ \E r \in {ItemStorage_getitem(heap, w_data, key)} :
       last' = WCall("ItemStorage.__getitem__", "", <<>>, None, r.exc, r.calls)
    /\ UNCHANGED <<kind, mode, file, closed, heap, m_data, w_exists, w_data,
                   ext, b_fresh, w_fresh, j_stored, write_vars, mode2>>

WSet(key, value) ==
    /\ w_exists
    /\ \E r \in {ItemStorage_setitem(kind, file, mode, closed, m_data, heap,
                                     w_data, key, value)} :
       \E c \in {Collect(r.heap, r.m_data, w_data)} :
       /\ FitsBound(r.file, mode)
       /\ file' = r.file
       /\ m_data' = c.m_data
       /\ w_data' = c.w_data
       /\ heap' = c.heap
       /\ b_fresh' = (b_fresh /\ r.exc # "none")
       /\ j_stored' = IF r.exc = "none" /\ kind = "json"
                       THEN StoredOf(r.heap[w_data].v) ELSE j_stored
       /\ last' = WCall("ItemStorage.__setitem__", key, value, None, r.exc,
                        r.calls)
    /\ UNCHANGED <<kind, mode, closed, w_exists, ext, w_fresh, write_vars, mode2>>

WClose ==
    /\ w_exists
    /\ \E r \in {Storage_close(closed)} :
       /\ closed' = r.closed
       /\ last' = CloseCall("ItemStorage.close", r.exc, closed)
    /\ UNCHANGED <<kind, mode, file, heap, m_data, w_exists, w_data, ext,
                   b_fresh, w_fresh, j_stored, write_vars, mode2>>

Next ==
    \/ JRead
    \/ \E data \in Snapshots : JWrite(data)
    \/ \E key \in Keys : JGet(key)
    \/ \E key \in Keys, value \in Items : JSet(key, value)
    \/ JClose
    \/ MRead
    \/ \E data \in Snapshots : MWrite(data)
    \/ \E key \in Keys : MGet(key)
    \/ \E key \in Keys, value \in Items : MSet(key, value)
    \/ MClose
    \/ WInit
    \/ WRead
    \/ \E data \in Snapshots : WWrite(data)
    \/ \E key \in Keys : WGet(key)
    \/ \E key \in Keys, value \in Items : WSet(key, value)
    \/ WClose

Spec == Init /\ [][Next]_vars

\* ================================= JSONStorage.write, statement by statement
\* The statements of write() with truncate moved before fsync: the file is
\* cut before the new content has been synced.
WriteSteps_TruncateBeforeSync ==
    <<"seek", "write", "flush", "truncate", "fsync", "return">>

\* The statements of write() after the test of _can_write, in program order.
WriteSteps == <<"seek", "write", "flush", "fsync", "truncate", "return">>

\* The statement after p; after the last one the call is over.
After(p) ==
    LET i == CHOOSE j \in DOMAIN WriteSteps : WriteSteps[j] = p
    IN  IF i = Len(WriteSteps) THEN "idle" ELSE WriteSteps[i + 1]

\* The variables of the memory leaf, the wrapper and the bookkeeping.
other_vars == <<heap, m_data, w_exists, w_data, ext, b_fresh, w_fresh,
                j_stored>>

\* A block of the file that stable storage holds no data for.
Nul == "NUL"

\* One JSONStorage over a file that is in sync with stable storage.
InitSteps ==
    /\ kind = "json"
    /\ mode \in Modes
    /\ \E c \in {<<>>} \cup {dumps(S) : S \in Snapshots} : file = open(c, mode)
    /\ closed = FALSE
    /\ heap = [a \in Addr |-> None]
    /\ m_data = NoneRef
    /\ w_exists = FALSE
    /\ w_data = NoneRef
    /\ ext = FALSE
    /\ b_fresh = FALSE
    /\ w_fresh = FALSE
    /\ j_stored = NothingStored
    /\ last = Call("init", "", <<>>, None, "none")
    /\ pc = "idle"
    /\ pos = 0
    /\ buf = <<>>
    /\ disk = file
    /\ before = file
    /\ mode2 = <<"r", "+">>

\* write(data) is called: the test of self._can_write.
BeginWrite(data) ==
    /\ pc = "idle"
    /\ FitsBound(file \o dumps(data), mode)
    /\ IF can_write(mode)
       THEN /\ pc' = WriteSteps[1]
            /\ last' = Call("JSONStorage.write", "", <<>>, Some(data), "none")
       ELSE /\ pc' = "idle"
            /\ last' = Call("JSONStorage.write", "", <<>>, None, "IOError")
    /\ before' = file
    /\ UNCHANGED <<kind, mode, file, closed, pos, buf, disk, other_vars, mode2>>

\* self._file.seek(0); a closed handle raises and the call is over.
StepSeek ==
    /\ pc = "seek"
    /\ IF closed
       THEN /\ pc' = "idle"
            /\ last' = Call("JSONStorage.write", "", <<>>, None, "ValueError")
            /\ pos' = pos
       ELSE /\ pc' = After(pc)
            /\ pos' = 0
            /\ last' = last
    /\ UNCHANGED <<kind, mode, file, closed, buf, disk, before, other_vars,
                   mode2>>

\* self._file.write(json.dumps(data)): the text waits in the handle's buffer.
StepWrite ==
    /\ pc = "write"
    /\ buf' = dumps(last.data.v)
    /\ pc' = After(pc)
    /\ UNCHANGED <<kind, mode, file, closed, pos, disk, before, last,
                   other_vars, mode2>>

\* self._file.flush(): the buffer goes to the file.
StepFlush ==
    /\ pc = "flush"
    /\ \E w \in {FileWrite(file, pos, buf, mode)} :
       /\ file' = w.content
       /\ pos' = w.pos
    /\ buf' = <<>>
    /\ pc' = After(pc)
    /\ UNCHANGED <<kind, mode, closed, disk, before, last, other_vars, mode2>>

\* os.fsync(fileno): stable storage holds the file as it is now.
StepFsync ==
    /\ pc = "fsync"
    /\ disk' = file
    /\ pc' = After(pc)
    /\ UNCHANGED <<kind, mode, file, closed, pos, buf, before, last,
                   other_vars, mode2>>

\* self._file.truncate(): pending text is flushed, the file is cut at the
\* offset.
StepTruncate ==
    /\ pc = "truncate"
    /\ \E w \in {FileWrite(file, pos, buf, mode)} :
       /\ file' = FileTruncate(IF buf = <<>> THEN file ELSE w.content,
                               IF buf = <<>> THEN pos ELSE w.pos)
       /\ pos' = IF buf = <<>> THEN pos ELSE w.pos
    /\ buf' = <<>>
    /\ pc' = After(pc)
    /\ UNCHANGED <<kind, mode, closed, disk, before, last, other_vars, mode2>>

StepReturn ==
    /\ pc = "return"
    /\ pc' = After(pc)
    /\ UNCHANGED <<kind, mode, file, closed, pos, buf, disk, before, last,
                   other_vars, mode2>>

\* The operating system brings stable storage up to date on its own, at any
\* moment: the whole file, or only its length (data of a file that grew is
\* then missing, a file that shrank is cut).
OSWriteback(whole) ==
    /\ disk' = IF whole THEN file
               ELSE [i \in 1..Len(file) |->
                       IF i <= Len(disk) THEN disk[i] ELSE Nul]
    /\ disk' # disk
    /\ UNCHANGED <<kind, mode, file, closed, pc, pos, buf, before, last,
                   other_vars, mode2>>

\* close() between two calls.
CloseBetween ==
    /\ pc = "idle"
    /\ ~closed
    /\ closed' = JSONStorage_close(closed).closed
    /\ last' = CloseCall("JSONStorage.close", "none", closed)
    /\ UNCHANGED <<kind, mode, file, pc, pos, buf, disk, before, other_vars,
                   mode2>>

NextSteps ==
    \/ \E data \in Snapshots : BeginWrite(data)
    \/ StepSeek
    \/ StepWrite
    \/ StepFlush
    \/ StepFsync
    \/ StepTruncate
    \/ StepReturn
    \/ \E whole \in BOOLEAN : OSWriteback(whole)
    \/ CloseBetween

SpecSteps == InitSteps /\ [][NextSteps]_vars

\* ======================================== two JSONStorage on the same path
\* Modes that can both read and write.
ReadWriteModes == {m \in Modes : Readable(m) /\ can_write(m)}

\* A call on one of the two instances: who made it, the snapshot passed to
\* the most recent write() that returned (None before the first), and what a
\* read() returned.
TwoCall(who, op, data, exc, ret) ==
    [who |-> who, op |-> op, key |-> "", item |-> <<>>, data |-> data,
     exc |-> exc, ret |-> ret]

\* The first instance opens the file, then the second one does.
InitTwo ==
    /\ kind = "json"
    /\ mode \in ReadWriteModes
    /\ mode2 \in ReadWriteModes
    /\ \E c \in PriorContents : file = open(open(c, mode), mode2)
    /\ closed = FALSE
    /\ heap = [a \in Addr |-> None]
    /\ m_data = NoneRef
    /\ w_exists = FALSE
    /\ w_data = NoneRef
    /\ ext = FALSE
    /\ b_fresh = FALSE
    /\ w_fresh = FALSE
    /\ j_stored = NothingStored
    /\ last = TwoCall(0, "init", None, "none", None)
    /\ pc = "idle"
    /\ pos = 0
    /\ buf = <<>>
    /\ disk = <<>>
    /\ before = <<>>

Read1 ==
    /\ \E r \in {JSONStorage_read(file, mode, closed)} :
       last' = TwoCall(1, "JSONStorage.read", last.data, r.exc, r.ret)
    /\ UNCHANGED <<kind, mode, file, closed, other_vars, write_vars, mode2>>

Read2 ==
    /\ \E r \in {JSONStorage_read(file, mode2, closed)} :
       last' = TwoCall(2, "JSONStorage.read", last.data, r.exc, r.ret)
    /\ UNCHANGED <<kind, mode, file, closed, other_vars, write_vars, mode2>>

Write1(data) ==
    /\ \E r \in {JSONStorage_write(file, mode, closed, data)} :
       /\ FitsBound(r.file, mode)
       /\ file' = r.file
       /\ last' = TwoCall(1, "JSONStorage.write",
                          IF r.exc = "none" THEN Some(data) ELSE last.data,
                          r.exc, None)
    /\ UNCHANGED <<kind, mode, closed, other_vars, write_vars, mode2>>

Write2(data) ==
    /\ \E r \in {JSONStorage_write(file, mode2, closed, data)} :
       /\ FitsBound(r.file, mode2)
       /\ file' = r.file
       /\ last' = TwoCall(2, "JSONStorage.write",
                          IF r.exc = "none" THEN Some(data) ELSE last.data,
                          r.exc, None)
    /\ UNCHANGED <<kind, mode, closed, other_vars, write_vars, mode2>>

NextTwo ==
    \/ Read1
    \/ Read2
    \/ \E data \in Snapshots : Write1(data)
    \/ \E data \in Snapshots : Write2(data)

SpecTwo == InitTwo /\ [][NextTwo]_vars

\* ============================================================ properties
\* What the wrapper's read() returns.
Cache == ItemStorage_read(heap, w_data)

\* What the wrapped backend's read() gives.
BackendRead ==
    IF kind = "memory"
    THEN [exc |-> "none", ret |-> Deref(heap, MemoryStorage_read(m_data))]
    ELSE JSONStorage_read(file, mode, closed)

\* Python equality of two optional snapshots.
OptEq(p, q) == p.some = q.some /\ (p.some => DictEq(p.v, q.v))

\* C1: when the wrapper's set fails because the backend's write raised, the
\* backend's exception reaches the caller and the cache is exactly the dict it
\* was before the call: same keys, same items, same order.
C1_RollbackOnFailure ==
    [][(last'.op = "ItemStorage.__setitem__"
          /\ last'.exc \in {"IOError", "ValueError"})
         => /\ Cache' = Cache
            /\ last'.exc = JSONStorage_write(file, mode, closed, <<>>).exc]_vars

\* A failed set on a key the cache holds with another item than the one given.
C1_Witness ==
    /\ last.op = "ItemStorage.__setitem__"
    /\ last.exc \in {"IOError", "ValueError"}
    /\ Cache.some
    /\ HasKey(Cache.v, last.key)
    /\ DictGet(Cache.v, last.key) # last.item
    /\ Len(Cache.v) = 2

\* C2: a direct write or set on the wrapped MemoryStorage never changes what
\* the wrapper's read() returns.
C2_CacheIndependence ==
    [][(w_exists /\ last'.op \in {"MemoryStorage.write",
                                   "MemoryStorage.__setitem__"})
         => Cache' = Cache]_vars

\* C3: with the wrapper as only writer, after each wrapper write or set the
\* wrapper's read() equals the backend's read() (stated for backends whose
\* handle is open and readable).
C3_CacheBackendSync ==
    (/\ w_exists
     /\ ~ext
     /\ last.op \in {"ItemStorage.write", "ItemStorage.__setitem__"}
     /\ ~closed
     /\ Readable(mode))
    => (BackendRead.exc = "none" /\ OptEq(BackendRead.ret, Cache))

\* C4: right after a write(S) that returned, read() gives a value equal to S,
\* on the JSON leaf (readable handle) and on the memory leaf.
C4_RoundTrip ==
    /\ (last.op = "JSONStorage.write" /\ last.exc = "none" /\ Readable(mode))
         => LET r == JSONStorage_read(file, mode, closed)
            IN  r.exc = "none" /\ OptEq(r.ret, last.data)
    /\ last.op = "MemoryStorage.write"
         => OptEq(Deref(heap, MemoryStorage_read(m_data)), last.data)

\* C5: in every write-capable mode, right after write(S) returned the file
\* holds exactly the serialization of S.
C5_WriteReplaces ==
    (last.op = "JSONStorage.write" /\ last.exc = "none")
        => file = dumps(last.data.v)

\* A read-only mode: none of 'a', 'w', '+' occurs in it.
ReadOnlyMode(m) == \A c \in {"a", "w", "+"} : ~InMode(c, m)

\* C6 as stated: in a read-only mode write and set both fail with the
\* permission error and leave the file unchanged.
C6_Original ==
    [][(ReadOnlyMode(mode) /\ last'.op \in {"JSONStorage.write",
                                            "JSONStorage.__setitem__"})
         => (last'.exc = "IOError" /\ file' = file)]_vars

\* C6 amended: in a read-only mode no call changes the file; write fails with
\* the permission error; set fails too, with the permission error whenever
\* its read() returned a snapshot.
C6_WritePermission ==
    [][ReadOnlyMode(mode)
         => /\ file' = file
            /\ last'.op = "JSONStorage.write" => last'.exc = "IOError"
            /\ last'.op = "JSONStorage.__setitem__"
                 => /\ last'.exc # "none"
                    /\ JSONStorage_read(file, mode, closed).ret.some
                         => last'.exc = "IOError"]_vars

\* A set refused on a read-only file that holds a snapshot.
C6_Witness ==
    /\ ReadOnlyMode(mode)
    /\ last.op = "JSONStorage.__setitem__"
    /\ last.exc = "IOError"
    /\ file # <<>>

\* C7: a set(k, item) that returns changes key k only: the keys afterwards are
\* the keys before plus k, and every other key gets the same item as before.
C7_SetIsolation ==
    [][last'.exc = "none" =>
        /\ last'.op = "JSONStorage.__setitem__"
             => LET pre == JSONStorage_read(file, mode, closed)
                    post == JSONStorage_read(file', mode', closed')
                IN  /\ post.exc = "none"
                    /\ post.ret.some
                    /\ DictKeys(post.ret.v) = DictKeys(pre.ret.v) \cup {last'.key}
                    /\ \A j \in DictKeys(pre.ret.v) \ {last'.key} :
                         JSONStorage_getitem(file', mode', closed', j)
                           = JSONStorage_getitem(file, mode, closed, j)
        /\ last'.op = "MemoryStorage.__setitem__"
             => LET pre == Deref(heap, m_data)
                    post == Deref(heap', m_data')
                IN  /\ post.some
                    /\ DictKeys(post.v) = DictKeys(pre.v) \cup {last'.key}
                    /\ \A j \in DictKeys(pre.v) \ {last'.key} :
                         MemoryStorage_getitem(heap', m_data', j)
                           = MemoryStorage_getitem(heap, m_data, j)
        /\ last'.op = "ItemStorage.__setitem__"
             => /\ Cache'.some
                /\ DictKeys(Cache'.v) = DictKeys(Cache.v) \cup {last'.key}
                /\ \A j \in DictKeys(Cache.v) \ {last'.key} :
                     ItemStorage_getitem(heap', w_data', j)
                       = ItemStorage_getitem(heap, w_data, j)]_vars

\* C8: right after a set(key, item) that returned, get(key) on the same
\* instance gives item; for the wrapper the backend's read() (open, readable
\* handle) gives the whole cache, key -> item included.
C8_SetPersists ==
    last.exc = "none" =>
        /\ last.op = "JSONStorage.__setitem__"
             => JSONStorage_getitem(file, mode, closed, last.key)
                  = [exc |-> "none", got |-> Some(last.item)]
        /\ last.op = "MemoryStorage.__setitem__"
             => MemoryStorage_getitem(heap, m_data, last.key)
                  = [exc |-> "none", got |-> Some(last.item)]
        /\ last.op = "ItemStorage.__setitem__"
             => /\ ItemStorage_getitem(heap, w_data, last.key)
                     = [exc |-> "none", got |-> Some(last.item),
                        calls |-> <<>>]
                /\ (~closed /\ Readable(mode))
                     => /\ BackendRead.exc = "none"
                        /\ OptEq(BackendRead.ret, Cache)
                        /\ HasKey(BackendRead.ret.v, last.key)
                        /\ DictGet(BackendRead.ret.v, last.key) = last.item

\* C9: the wrapper's write(S) passes S to the backend's write; when that
\* returns the cache is S, when that raises the same exception reaches the
\* caller and the cache is the dict it was.
C9_WriteThrough ==
    [][last'.op = "ItemStorage.write" =>
         IF last'.exc # "none"
         THEN /\ kind = "json"
              /\ last'.exc = JSONStorage_write(file, mode, closed, <<>>).exc
              /\ Cache' = Cache
              /\ file' = file
         ELSE /\ last'.data.some
              /\ Cache' = last'.data
              /\ kind = "json" =>
                   /\ JSONStorage_write(file, mode, closed, <<>>).exc = "none"
                   /\ file' = JSONStorage_write(file, mode, closed,
                                                last'.data.v).file
              /\ kind = "memory" => Deref(heap', m_data') = last'.data]_vars

\* A wrapper write that failed while the cache held a snapshot.
C9_Witness ==
    /\ last.op = "ItemStorage.write"
    /\ last.exc # "none"
    /\ Cache.some
    /\ Cache.v # <<>>

\* C10: a backend that started empty reads as None, without raising, until a
\* write on it succeeds: the JSON leaf (open handle), the memory leaf, and a
\* wrapper built over an empty backend.
C10_EmptyStart ==
    /\ (kind = "json" /\ b_fresh /\ ~closed)
         => JSONStorage_read(file, mode, closed) = [exc |-> "none", ret |-> None]
    /\ (kind = "memory" /\ b_fresh)
         => Deref(heap, MemoryStorage_read(m_data)) = None
    /\ (w_exists /\ w_fresh) => ItemStorage_read(heap, w_data) = None

\* A set was tried and refused on an empty file under a wrapper, all still
\* without a snapshot.
C10_Witness ==
    /\ kind = "json"
    /\ b_fresh
    /\ ~closed
    /\ w_exists
    /\ w_fresh
    /\ last.op = "JSONStorage.__setitem__"
    /\ last.exc = "TypeError"

C12_CloseIdempotent ==
    [][last'.op \in {"JSONStorage.close", "MemoryStorage.close",
                     "ItemStorage.close"}
         => /\ last'.exc = "none"
            /\ last'.op = "JSONStorage.close" => closed'
            /\ last'.op # "JSONStorage.close" => closed' = closed
            /\ UNCHANGED <<kind, mode, file, heap, m_data, w_exists, w_data,
                           ext, b_fresh, w_fresh, j_stored>>]_vars

\* A JSONStorage.close() has run on a handle that was closed already.
C12_Witness ==
    /\ last.op = "JSONStorage.close"
    /\ last.was
    /\ last.exc = "none"
    /\ closed

\* C18: closing the wrapper does not close what it wraps.  ItemStorage.close()
\* returns without raising and changes nothing: the cache is the same object
\* with the same content, the wrapped backend and its file handle are as they
\* were, so read and get on the wrapper answer as before and write and set
\* meet the same backend.  The file handle goes from open to closed only in a
\* JSONStorage.close().
C18_WrapperCloseNoOp ==
    [][/\ last'.op = "ItemStorage.close"
            => /\ last'.exc = "none"
               /\ closed' = closed
               /\ Cache' = Cache
               /\ \A k \in Keys : ItemStorage_getitem(heap', w_data', k)
                                     = ItemStorage_getitem(heap, w_data, k)
               /\ UNCHANGED <<kind, mode, file, heap, m_data, w_exists,
                              w_data, ext, b_fresh, w_fresh, j_stored>>
       /\ closed' # closed => last'.op = "JSONStorage.close"]_vars

\* The wrapper was closed over a JSONStorage whose handle is still open, and
\* the cache holds a snapshot with a key.
C18_Witness ==
    /\ last.op = "ItemStorage.close"
    /\ kind = "json"
    /\ ~closed
    /\ Cache.some
    /\ Cache.v # <<>>

\* C14: the wrapper reads its backend once.  The constructor calls the
\* backend's read() exactly once and nothing else; read() and get on the
\* wrapper call no method of the backend and change neither the file, the
\* handle nor any dict; write and set never call the backend's read().
C14_ReadsBackendOnce ==
    [][/\ last'.op = "ItemStorage.__init__" => last'.calls = <<"read">>
       /\ last'.op \in {"ItemStorage.read", "ItemStorage.__getitem__"}
            => /\ last'.calls = <<>>
               /\ UNCHANGED <<file, closed, heap, m_data, w_data>>
       /\ last'.op \in {"ItemStorage.write", "ItemStorage.__setitem__"}
            => \A i \in DOMAIN last'.calls : last'.calls[i] # "read"]_vars

\* A get answered by the wrapper while its backend, written by someone else
\* since the construction, reads differently from the cache.
C14_Witness ==
    /\ last.op = "ItemStorage.__getitem__"
    /\ last.exc = "none"
    /\ last.calls = <<>>
    /\ ext
    /\ Cache.some
    /\ BackendRead.exc = "none"
    /\ ~OptEq(BackendRead.ret, Cache)

\* C15: one policy for a missing key.  Over the storages that hold a snapshot
\* (the JSON leaf with an open handle whose read() gives one, the memory leaf
\* once written, the wrapper with a cache) and the keys their snapshot lacks,
\* get has one and the same outcome: None everywhere or KeyError everywhere.
C15_UniformMissingKey ==
    LET leaf == BackendRead
        rd == IF kind = "json" /\ closed THEN None
              ELSE IF leaf.exc = "none" THEN leaf.ret ELSE None
        leafGet(k) == IF kind = "json"
                      THEN JSONStorage_getitem(file, mode, closed, k)
                      ELSE MemoryStorage_getitem(heap, m_data, k)
        outcome(g) == IF g.exc = "none" /\ ~g.got.some THEN "absent" ELSE g.exc
        outcomes ==
            {outcome(leafGet(k)) : k \in {j \in Keys : rd.some /\ ~HasKey(rd.v, j)}}
            \cup {outcome(ItemStorage_getitem(heap, w_data, k)) :
                     k \in {j \in Keys : /\ w_exists
                                         /\ Cache.some
                                         /\ ~HasKey(Cache.v, j)}}
    IN  outcomes \subseteq {"absent"} \/ outcomes \subseteq {"KeyError"}

\* C17: set on a store without snapshot fails and has no effect.  On a
\* JSONStorage whose read() gives None (open handle, empty file), on a
\* MemoryStorage whose _data is None, and on an ItemStorage whose cache is
\* None, set(key, item) raises, writes nothing to the file or to the wrapped
\* backend, and read() gives None afterwards as before.
C17_SetWithoutSnapshot ==
    [][/\ (/\ last'.op = "JSONStorage.__setitem__"
           /\ JSONStorage_read(file, mode, closed)
                = [exc |-> "none", ret |-> None])
            => /\ last'.exc # "none"
               /\ file' = file
               /\ JSONStorage_read(file', mode', closed')
                    = [exc |-> "none", ret |-> None]
       /\ (last'.op = "MemoryStorage.__setitem__" /\ m_data = NoneRef)
            => /\ last'.exc # "none"
               /\ heap' = heap
               /\ Deref(heap', MemoryStorage_read(m_data')) = None
       /\ (last'.op = "ItemStorage.__setitem__" /\ ~Cache.some)
            => /\ last'.exc # "none"
               /\ last'.calls = <<>>
               /\ file' = file
               /\ heap' = heap
               /\ m_data' = m_data
               /\ ~Cache'.some]_vars

\* A set refused by a wrapper without cache whose backend has meanwhile been
\* given a snapshot.
C17_Witness ==
    /\ last.op = "ItemStorage.__setitem__"
    /\ last.exc = "AttributeError"
    /\ ~Cache.some
    /\ BackendRead.exc = "none"
    /\ BackendRead.ret.some

\* C13: durability ordering of write().  The statements run in the order
\* seek, write, flush, fsync, truncate; the file is cut only in the truncate
\* statement, when stable storage already holds the whole new text at the
\* place it was written; and at every point inside a write, stable storage is
\* shorter than the file was before the call only if it holds exactly the new
\* text.
C13_DurabilityOrder ==
    [][/\ pc' # pc =>
            <<pc, pc'>> \in {<<"idle", "seek">>, <<"seek", "write">>,
                             <<"seek", "idle">>, <<"write", "flush">>,
                             <<"flush", "fsync">>, <<"fsync", "truncate">>,
                             <<"truncate", "return">>, <<"return", "idle">>}
       /\ Len(file') < Len(file) =>
            /\ pc = "truncate"
            /\ buf = <<>>
            /\ Len(disk) >= pos
            /\ SubSeq(disk, pos - Len(dumps(last.data.v)) + 1, pos)
                 = dumps(last.data.v)
       /\ (pc' # "idle" /\ Len(disk') < Len(before'))
            => disk' = dumps(last'.data.v)]_vars

\* After the truncate of a write that shrank the file, stable storage has
\* followed: it is shorter than the file was before the call.
C13_Witness ==
    /\ pc = "return"
    /\ Len(disk) < Len(before)
    /\ disk = dumps(last.data.v)
    /\ file = disk

\* C16: last writer wins.  With two JSONStorage opened for reading and
\* writing on one file, once a write has returned on either of them the file
\* holds the serialization of the snapshot passed to the most recent write
\* and nothing else, read() on either instance would return that snapshot,
\* and every read() made did return it.
C16_LastWriterWins ==
    last.data.some =>
        /\ file = dumps(last.data.v)
        /\ \A m \in {mode, mode2} :
             /\ JSONStorage_read(file, m, closed).exc = "none"
             /\ OptEq(JSONStorage_read(file, m, closed).ret, last.data)
        /\ last.op = "JSONStorage.read"
             => (last.exc = "none" /\ OptEq(last.ret, last.data))
====
